---- MODULE Spec2Model ----
(***************************************************************************)
(* Model of backup.py (Dropbox Business backup): the SetQueue, the filter  *)
(* should_download, the generators list_members and list_files (with the   *)
(* limit decorator), save_file and the main program list_and_save.         *)
(***************************************************************************)
EXTENDS Integers, Sequences, FiniteSets, TLC

VARIABLES
    pc,           \* position of list_and_save: "idle", "list_members", "fill", "drain", "get_wait", "raised"
    team,         \* the remote service: [member_pages, folders]
    args,         \* argparse.Namespace: [maxsize, since, out]
    members_list, \* list_members: the page response held in members_list
    members,      \* list_and_save: members = list(list_members(team))
    member_requests, \* history: member page requests issued
    midx,         \* list_and_save: index of the member the fill loop is at
    stack,        \* list_files: the chain of suspended generator frames
    requests,     \* history: folder listing requests issued
    discovered,   \* history: File objects yielded by the top-level list_files calls
    looked,       \* history: path_display of the entries the list_files loops have examined
    file_queue,   \* SetQueue: [queue, all_items]
    last_op,      \* history: the last operation on file_queue
    ever_put,     \* history: identifiers ever passed to put
    delivered,    \* history: File objects returned by get
    save_calls,   \* history: one record per save_file call
    downloads,    \* history: download requests issued
    disk,         \* local paths that hold a file
    log,          \* error records written by the loggers
    exc,          \* exception that left list_and_save: [type, at], NoExc if none
    sd_in,        \* should_download: arguments of the call
    sd_out,       \* should_download: <<returned value>>, <<>> before the call
    mutex,        \* Queue.mutex of file_queue: the thread that holds it, 0 if free
    producers     \* threads calling file_queue.put: [pc, item, absent] each

vars == <<pc, team, args, members_list, members, member_requests, midx, stack,
          requests, discovered, looked, file_queue, last_op, ever_put, delivered,
          save_calls, downloads, disk, log, exc, sd_in, sd_out, mutex, producers>>

serviceVars == <<team, args>>
memberVars  == <<members_list, members, member_requests>>
walkVars    == <<midx, stack, requests, discovered, looked>>
queueVars   == <<file_queue, last_op, ever_put, delivered>>
saveVars    == <<save_calls, downloads, disk, log>>
filterVars  == <<sd_in, sd_out>>
threadVars  == <<mutex, producers>>

----------------------------------------------------------------------------
(* Bounds of the model *)

MaxId       == 3    \* file identifiers 1..MaxId in the queue specification
MaxMember   == 2    \* team member identifiers 1..MaxMember
MaxMaxsize  == 2    \* --maxsize ranges over 0..MaxMaxsize
MaxTime     == 2    \* timestamps range over 0..MaxTime
MaxPages    == 3    \* member pages per chain: 1..MaxPages
MaxFiles    == 11   \* files in one sub-folder of the walked trees: 0..MaxFiles
MaxRoot     == 1    \* files of the root before and after its sub-folder: 0..MaxRoot
MaxOwn      == 2    \* files of a member's own in a whole run: 0..MaxOwn
MaxShared   == 2    \* files of the shared folder in a whole run: 0..MaxShared
MaxProducers == 2   \* threads that call put concurrently: 1..MaxProducers

(* Program constants *)

MB          == 1000000   \* 1e6 bytes per MB in should_download
LIMIT       == 10        \* @limit(10) on list_files

None        == -1        \* Python None where an integer may stand (args.since)
NoExc       == [type |-> "none", at |-> "none"]

----------------------------------------------------------------------------
(* Python objects *)

\* Python attribute lookup: an object is a record, a missing attribute
\* raises AttributeError.
HasAttr(obj, name) == name \in DOMAIN obj

\* dropbox.team.TeamMemberInfo as used by list_files and list_and_save:
\* member.profile.team_member_id
TeamMemberInfo(k) == [profile |-> [team_member_id |-> k]]

\* dropbox.files.FileMetadata: the attributes the program reads
FileMetadata(id, path, size, mod) ==
    [id |-> id, path_display |-> path, size |-> size, server_modified |-> mod]

\* dropbox.files.FolderMetadata: no size, no server_modified
FolderMetadata(path) == [path_display |-> path]

\* class File
File(file, member) == [file |-> file, member |-> member]

\* plausible slip: File objects are equal when identifier and member are
File_eq_same_member(a, b) == a.file.id = b.file.id /\ a.member = b.member

\* File.__eq__ (and File.__hash__: equal identifiers hash equally)
File_eq(a, b) == a.file.id = b.file.id

----------------------------------------------------------------------------
(* class SetQueue *)

\* SetQueue.__init__
SetQueue_init == [queue |-> <<>>, all_items |-> {}]

\* item in self.all_items, a set of File objects compared by File.__eq__
InAllItems(item, all_items) == \E x \in all_items : File_eq(x, item)

\* plausible slip: the check looks at the entries queued now, not at all_items
SetQueue_put_queued_only(q, item) ==
    IF ~(\E i \in 1..Len(q.queue) : File_eq(q.queue[i], item))
    THEN [queue |-> Append(q.queue, item), all_items |-> q.all_items \cup {item}]
    ELSE q

\* SetQueue._put, called by Queue.put (maxsize 0: put never blocks)
SetQueue_put(q, item) ==
    IF ~InAllItems(item, q.all_items)
    THEN [queue |-> Append(q.queue, item), all_items |-> q.all_items \cup {item}]
    ELSE q

----------------------------------------------------------------------------
(* should_download *)

\* plausible slip: >= instead of > on the size
should_download_ge(file, a) ==
    IF file.size >= MB * a.maxsize THEN FALSE
    ELSE IF a.since # None /\ a.since > file.server_modified THEN FALSE
    ELSE TRUE

should_download(file, a) ==
    IF file.size > MB * a.maxsize THEN FALSE
    ELSE IF a.since # None /\ a.since > file.server_modified THEN FALSE
    ELSE TRUE

----------------------------------------------------------------------------
(* Values of variables a specification does not use *)

IdleService == team = [member_pages |-> <<>>, folders |-> <<>>]
               /\ args = [maxsize |-> 0, since |-> None, out |-> <<>>]
NoPage      == [members |-> <<>>, has_more |-> FALSE, cursor |-> 0]
IdleMembers == members_list = NoPage /\ members = <<>> /\ member_requests = <<>>
IdleWalk    == midx = 0 /\ stack = <<>> /\ requests = <<>> /\ discovered = <<>> /\ looked = <<>>
IdleQueue   == file_queue = SetQueue_init /\ last_op = [op |-> "none"]
               /\ ever_put = {} /\ delivered = <<>>
IdleSave    == save_calls = <<>> /\ downloads = <<>> /\ disk = {} /\ log = <<>>
IdleFilter  == sd_in = <<>> /\ sd_out = <<>>
IdleThreads == mutex = 0 /\ producers = <<>>

----------------------------------------------------------------------------
(* Paths are sequences of characters *)

Digit == <<"0", "1", "2", "3", "4", "5", "6", "7", "8", "9">>
D(n) == Digit[n + 1]
Name(n) == IF n < 10 THEN <<D(n)>> ELSE <<D(n \div 10), D(n % 10)>>

----------------------------------------------------------------------------
(* SetQueue under arbitrary put and get calls *)

\* File objects offered to put: each identifier under each member
QueueItems ==
    { File(FileMetadata(id, <<"/", D(m), "/", D(id)>>, 0, 0), TeamMemberInfo(m)) :
        id \in 1..MaxId, m \in 1..MaxMember }

InitQueue ==
    /\ pc = "idle" /\ exc = NoExc
    /\ IdleService /\ IdleMembers /\ IdleWalk /\ IdleQueue /\ IdleSave /\ IdleFilter
    /\ IdleThreads

\* Queue.put(item): _put under the queue's mutex
QueuePut ==
    \E item \in QueueItems :
        /\ file_queue' = SetQueue_put(file_queue, item)
        /\ last_op' = [op |-> "put", item |-> item,
                       accepted |-> SetQueue_put(file_queue, item) # file_queue]
        /\ ever_put' = ever_put \cup {item.file.id}
        /\ UNCHANGED <<pc, exc, delivered, serviceVars, threadVars, memberVars, walkVars,
                       saveVars, filterVars>>

\* plausible slip: get also forgets the entry it returns
QueueGet_forgets ==
    /\ file_queue.queue # <<>>
    /\ delivered' = Append(delivered, Head(file_queue.queue))
    /\ file_queue' = [queue |-> Tail(file_queue.queue),
                      all_items |-> file_queue.all_items \ {Head(file_queue.queue)}]
    /\ last_op' = [op |-> "get", item |-> Head(file_queue.queue), accepted |-> FALSE]
    /\ UNCHANGED <<pc, exc, ever_put, serviceVars, threadVars, memberVars, walkVars,
                   saveVars, filterVars>>

\* Queue.get(): removes and returns the oldest entry; waits while empty
QueueGet ==
    /\ file_queue.queue # <<>>
    /\ delivered' = Append(delivered, Head(file_queue.queue))
    /\ file_queue' = [file_queue EXCEPT !.queue = Tail(@)]
    /\ last_op' = [op |-> "get", item |-> Head(file_queue.queue), accepted |-> FALSE]
    /\ UNCHANGED <<pc, exc, ever_put, serviceVars, threadVars, memberVars, walkVars,
                   saveVars, filterVars>>

NextQueue == QueuePut \/ QueueGet

SpecQueue == InitQueue /\ [][NextQueue]_vars

\* identifiers of a sequence of File objects
Ids(s) == { s[i].file.id : i \in 1..Len(s) }
\* number of File objects of s with identifier id
Count(s, id) == Cardinality({ i \in 1..Len(s) : s[i].file.id = id })

\* C1: every identifier is delivered by get at most once, and once the queue
\* is drained every identifier that was ever put has been delivered exactly
\* once, whatever members it was put under and even when it was put again
\* after its entry had been removed.
C1_InsertOnceEver ==
    /\ \A id \in 1..MaxId : Count(delivered, id) <= 1
    /\ file_queue.queue = <<>> => \A id \in ever_put : Count(delivered, id) = 1

\* a put of an identifier that was delivered before, under another member,
\* has just been dropped
C1_Witness ==
    /\ last_op.op = "put" /\ ~last_op.accepted
    /\ file_queue.queue = <<>>
    /\ \E i \in 1..Len(delivered) :
          /\ delivered[i].file.id = last_op.item.file.id
          /\ delivered[i].member # last_op.item.member

----------------------------------------------------------------------------
(* should_download on bounded inputs *)

FilterFiles ==
    { FileMetadata(1, <<"/", "1">>, MB * m + d, t) :
        m \in 0..MaxMaxsize, d \in {-1, 0, 1}, t \in 0..MaxTime }
FilterArgs ==
    { [maxsize |-> m, since |-> s, out |-> <<>>] :
        m \in 0..MaxMaxsize, s \in {None} \cup 0..MaxTime }

InitFilter ==
    /\ pc = "idle" /\ exc = NoExc
    /\ IdleService /\ IdleMembers /\ IdleWalk /\ IdleQueue /\ IdleSave /\ IdleThreads
    /\ sd_in \in { <<f, a>> : f \in { g \in FilterFiles : g.size >= 0 }, a \in FilterArgs }
    /\ sd_out = <<>>

CallShouldDownload ==
    /\ sd_in # <<>> /\ sd_out = <<>>
    /\ sd_out' = <<should_download(sd_in[1], sd_in[2])>>
    /\ UNCHANGED <<pc, exc, sd_in, serviceVars, threadVars, memberVars, walkVars, queueVars, saveVars>>

NextFilter == CallShouldDownload

SpecFilter == InitFilter /\ [][NextFilter]_vars

\* C4: should_download is False when size > maxsize * 1,000,000; otherwise
\* False when since is set and the file was modified strictly before since;
\* otherwise True.  The size rule comes first; a size equal to the threshold
\* and a modification time equal to since are accepted.
C4_FilterPredicate ==
    sd_out # <<>> =>
        LET f == sd_in[1]  a == sd_in[2]
            tooLarge == f.size > a.maxsize * 1000000
            tooOld   == a.since # None /\ f.server_modified < a.since
        IN /\ tooLarge => sd_out[1] = FALSE
           /\ (~tooLarge /\ tooOld) => sd_out[1] = FALSE
           /\ (~tooLarge /\ ~tooOld) => sd_out[1] = TRUE
           /\ (f.size = a.maxsize * 1000000 /\ ~tooOld) => sd_out[1] = TRUE
           /\ (f.size <= a.maxsize * 1000000 /\ a.since = f.server_modified)
                 => sd_out[1] = TRUE

\* a file exactly at the byte threshold and exactly at the cutoff was accepted
C4_Witness ==
    /\ sd_out = <<TRUE>>
    /\ sd_in[1].size = sd_in[2].maxsize * 1000000
    /\ sd_in[2].since # None /\ sd_in[1].server_modified = sd_in[2].since

----------------------------------------------------------------------------
(* The remote service: member pages *)

\* concatenation of a sequence of sequences
RECURSIVE Concat(_)
Concat(ss) == IF ss = <<>> THEN <<>> ELSE Head(ss) \o Concat(Tail(ss))

\* the response for page k of a chain: the cursor names the next page
MembersListResult(pages, k) ==
    [members |-> pages[k], has_more |-> k < Len(pages), cursor |-> k + 1]

\* team.team_members_list()
team_members_list(t) == MembersListResult(t.member_pages, 1)

\* team.team_members_list_continue(cursor)
team_members_list_continue(t, cursor) == MembersListResult(t.member_pages, cursor)

\* orderings of n distinct members
Arrangements(n) ==
    { f \in [1..n -> 1..MaxMember] : \A i, j \in 1..n : i # j => f[i] # f[j] }

\* the member identifiers arr cut into p pages at the positions c
Paged(arr, p, c) ==
    [k \in 1..p |->
        LET from == IF k = 1 THEN 1 ELSE c[k - 1] + 1
            to   == IF k = p THEN Len(arr) ELSE c[k]
        IN [i \in 1..(to - from + 1) |-> TeamMemberInfo(arr[from + i - 1])]]

\* finite chains of member pages: every member on one page at most, pages
\* may be empty
PageChains ==
    UNION { UNION { { Paged(arr, p, c) :
                        c \in { d \in [1..(p - 1) -> 0..n] :
                                  \A i, j \in 1..(p - 1) : i <= j => d[i] <= d[j] } } :
                    arr \in Arrangements(n) } :
            n \in 0..MaxMember, p \in 1..MaxPages }

----------------------------------------------------------------------------
(* list_members, consumed by list() in list_and_save *)

\* plausible slip: every continuation is asked with the cursor of the first page
ListMembersContinue_first_cursor ==
    /\ pc = "list_members_loop"
    /\ members_list.has_more
    /\ LET r == team_members_list_continue(team, team_members_list(team).cursor)
       IN /\ members_list' = r
          /\ members' = members \o r.members
          /\ member_requests' = Append(member_requests,
                 [op |-> "team_members_list_continue",
                  cursor |-> team_members_list(team).cursor, failed |-> FALSE])
    /\ Len(member_requests) <= MaxPages
    /\ UNCHANGED <<pc, exc, serviceVars, threadVars, walkVars, queueVars, saveVars, filterVars>>

\* members_list = team.team_members_list(); yield each member of the page
ListMembersFirst ==
    /\ pc = "list_members"
    /\ LET r == team_members_list(team)
       IN /\ members_list' = r
          /\ members' = members \o r.members
          /\ member_requests' = Append(member_requests,
                 [op |-> "team_members_list", cursor |-> 0, failed |-> FALSE])
    /\ pc' = "list_members_loop"
    /\ UNCHANGED <<exc, serviceVars, threadVars, walkVars, queueVars, saveVars, filterVars>>

\* while members_list.has_more: request the next page with the cursor,
\* yield each member of the page
ListMembersContinue ==
    /\ pc = "list_members_loop"
    /\ members_list.has_more
    /\ LET r == team_members_list_continue(team, members_list.cursor)
       IN /\ members_list' = r
          /\ members' = members \o r.members
          /\ member_requests' = Append(member_requests,
                 [op |-> "team_members_list_continue", cursor |-> members_list.cursor,
                  failed |-> FALSE])
    /\ UNCHANGED <<pc, exc, serviceVars, threadVars, walkVars, queueVars, saveVars, filterVars>>

\* has_more is false: the generator ends, list() returns and the loop over
\* the members starts
ListMembersReturn ==
    /\ pc = "list_members_loop"
    /\ ~members_list.has_more
    /\ pc' = "fill"
    /\ midx' = 1
    /\ UNCHANGED <<exc, stack, requests, discovered, looked, serviceVars, threadVars, memberVars,
                   queueVars, saveVars, filterVars>>

InitMembers ==
    /\ pc = "list_members" /\ exc = NoExc
    /\ team \in { [member_pages |-> ch, folders |-> <<>>] : ch \in PageChains }
    /\ args = [maxsize |-> 0, since |-> None, out |-> <<>>]
    /\ IdleMembers /\ IdleWalk /\ IdleQueue /\ IdleSave /\ IdleFilter /\ IdleThreads

NextMembers == ListMembersFirst \/ ListMembersContinue \/ ListMembersReturn

SpecMembers == InitMembers /\ [][NextMembers]_vars

\* list_members runs in the one thread of the program: it is never starved
FairSpecMembers == SpecMembers /\ WF_vars(NextMembers)

\* the requests list_members has issued are the first page and then one
\* continuation per earlier response, each with that response's cursor
MemberRequestsChained ==
    /\ Len(member_requests) <= Len(team.member_pages)
    /\ \A k \in 1..Len(member_requests) :
          IF k = 1 THEN member_requests[k].op = "team_members_list"
          ELSE /\ member_requests[k].op = "team_members_list_continue"
               /\ MembersListResult(team.member_pages, k - 1).has_more
               /\ member_requests[k].cursor =
                      MembersListResult(team.member_pages, k - 1).cursor

\* the members yielded so far are the members of the pages requested so far
MembersInPageOrder ==
    members = Concat(SubSeq(team.member_pages, 1, Len(member_requests)))

\* C10: list_members requests the first page, then a continuation with the
\* previous page's cursor while has_more is true, yields every member of
\* every page once in page order and in-page order, requests nothing after
\* the page with has_more false, and terminates.
C10_MemberEnumeration ==
    /\ [](MemberRequestsChained /\ MembersInPageOrder)
    /\ [](pc = "fill" => /\ Len(member_requests) = Len(team.member_pages)
                         /\ members = Concat(team.member_pages))
    /\ <>(pc = "fill")

\* a chain of three pages has been read to its end and two members yielded
C10_Witness ==
    /\ pc = "fill"
    /\ Len(team.member_pages) = 3
    /\ Len(member_requests) = 3
    /\ Len(members) = 2
    /\ team.member_pages[2] # <<>>

----------------------------------------------------------------------------
(* The remote service: folder listings *)

\* the response for page k of the listing of dir: the cursor names the next page
ListFolderResult(pages, dir, k) ==
    [entries |-> pages[k], has_more |-> k < Len(pages),
     cursor |-> [dir |-> dir, page |-> k + 1]]

\* team.as_user(id).files_list_folder(dir)
files_list_folder(t, user, dir) == ListFolderResult(t.folders[user][dir], dir, 1)

\* team.as_user(id).files_list_folder_continue(cursor)
files_list_folder_continue(t, user, cursor) ==
    ListFolderResult(t.folders[user][cursor.dir], cursor.dir, cursor.page)

\* entries cut into pages of ps entries; an empty folder has one empty page
Paginate(entries, ps) ==
    LET n == Len(entries)
        np == IF n = 0 THEN 1 ELSE (n + ps - 1) \div ps
    IN [k \in 1..np |->
          SubSeq(entries, (k - 1) * ps + 1, IF k * ps < n THEN k * ps ELSE n)]

----------------------------------------------------------------------------
(* list_files under the limit decorator *)

\* should_download(entry, args) raises AttributeError: the entry lacks an
\* attribute the filter reads
RaisesAttributeError(entry, a) ==
    IF ~HasAttr(entry, "size") THEN TRUE
    ELSE IF entry.size > MB * a.maxsize THEN FALSE
    ELSE a.since # None /\ ~HasAttr(entry, "server_modified")

\* plausible slip: the wrapper lets one item more through
limit_passes_le(i) == i <= LIMIT

\* limit: the wrapper yields the item with index i when i < limit
limit_passes(i) == i < LIMIT

\* the frame of a list_files call that has just listed dir
Frame(t, user, dir) ==
    [dir |-> dir, folder_list |-> files_list_folder(t, user, dir), e |-> 1, i |-> 0]

Top == stack[Len(stack)]
Member == members[midx]
User == Member.profile.team_member_id
Walking == pc = "fill" /\ stack # <<>>
AtEntry == Walking /\ Top.e <= Len(Top.folder_list.entries)
Entry == Top.folder_list.entries[Top.e]

\* the wrappers the item yielded by the innermost call meets that break
Breakers == { j \in 1..Len(stack) : ~limit_passes(stack[j].i) }

\* the top frame moved to its next entry
Advance(stk) == [stk EXCEPT ![Len(stk)].e = @ + 1]

\* for member in members: the first next() on list_files(team, member, args)
\* lists the root folder as the member
FillNextMember ==
    /\ pc = "fill" /\ stack = <<>>
    /\ midx <= Len(members)
    /\ stack' = <<Frame(team, User, <<>>)>>
    /\ requests' = Append(requests, [user |-> User, op |-> "files_list_folder", arg |-> <<>>,
                                     failed |-> FALSE])
    /\ UNCHANGED <<pc, exc, midx, discovered, looked, serviceVars, threadVars, memberVars, queueVars,
                   saveVars, filterVars>>

\* the entry is a file that fails the filter
WalkSkip ==
    /\ AtEntry
    /\ ~RaisesAttributeError(Entry, args)
    /\ ~should_download(Entry, args)
    /\ stack' = Advance(stack)
    /\ looked' = Append(looked, Entry.path_display)
    /\ UNCHANGED <<pc, exc, midx, requests, discovered, serviceVars, threadVars, memberVars,
                   queueVars, saveVars, filterVars>>

\* the entry is a file that passes the filter and every wrapper lets it
\* through: list_and_save puts it in the queue
WalkYield ==
    /\ AtEntry
    /\ ~RaisesAttributeError(Entry, args)
    /\ should_download(Entry, args)
    /\ Breakers = {}
    /\ LET f == File(Entry, Member)
       IN /\ discovered' = Append(discovered, f)
          /\ looked' = Append(looked, Entry.path_display)
          /\ file_queue' = SetQueue_put(file_queue, f)
          /\ last_op' = [op |-> "put", item |-> f,
                         accepted |-> SetQueue_put(file_queue, f) # file_queue]
          /\ ever_put' = ever_put \cup {f.file.id}
    /\ stack' = [j \in 1..Len(stack) |->
                    [stack[j] EXCEPT !.i = @ + 1,
                                     !.e = IF j = Len(stack) THEN @ + 1 ELSE @]]
    /\ UNCHANGED <<pc, exc, midx, requests, delivered, serviceVars, threadVars, memberVars,
                   saveVars, filterVars>>

\* the entry is a file that passes the filter, and the innermost wrapper that
\* has had its limit of items breaks: its call and the calls below it end,
\* the item is dropped and the caller goes on with its next entry
WalkYieldBreak ==
    /\ AtEntry
    /\ ~RaisesAttributeError(Entry, args)
    /\ should_download(Entry, args)
    /\ Breakers # {}
    /\ LET j == CHOOSE k \in Breakers : \A l \in Breakers : l <= k
       IN /\ stack' = SubSeq(stack, 1, j - 1)
          /\ midx' = IF j = 1 THEN midx + 1 ELSE midx
    /\ looked' = Append(looked, Entry.path_display)
    /\ UNCHANGED <<pc, exc, requests, discovered, serviceVars, threadVars, memberVars,
                   queueVars, saveVars, filterVars>>

\* the entry has no file attributes: yield from list_files on its path
WalkFolderEntry ==
    /\ AtEntry
    /\ RaisesAttributeError(Entry, args)
    /\ stack' = Append(Advance(stack), Frame(team, User, Entry.path_display))
    /\ requests' = Append(requests,
           [user |-> User, op |-> "files_list_folder", arg |-> Entry.path_display,
            failed |-> FALSE])
    /\ looked' = Append(looked, Entry.path_display)
    /\ UNCHANGED <<pc, exc, midx, discovered, serviceVars, threadVars, memberVars, queueVars,
                   saveVars, filterVars>>

\* the page is done and has_more is true: list the next page with the cursor
WalkNextPage ==
    /\ Walking /\ ~AtEntry
    /\ Top.folder_list.has_more
    /\ stack' = [stack EXCEPT ![Len(stack)].folder_list =
                     files_list_folder_continue(team, User, Top.folder_list.cursor),
                              ![Len(stack)].e = 1]
    /\ requests' = Append(requests,
           [user |-> User, op |-> "files_list_folder_continue",
            arg |-> Top.folder_list.cursor, failed |-> FALSE])
    /\ UNCHANGED <<pc, exc, midx, discovered, looked, serviceVars, threadVars, memberVars, queueVars,
                   saveVars, filterVars>>

\* the page is done and has_more is false: the call ends; when it is the
\* top-level call the loop goes to the next member
WalkReturn ==
    /\ Walking /\ ~AtEntry
    /\ ~Top.folder_list.has_more
    /\ stack' = SubSeq(stack, 1, Len(stack) - 1)
    /\ midx' = IF Len(stack) = 1 THEN midx + 1 ELSE midx
    /\ UNCHANGED <<pc, exc, requests, discovered, looked, serviceVars, threadVars, memberVars,
                   queueVars, saveVars, filterVars>>

\* plausible slip: the drain loop starts as soon as one list_files call has
\* ended, whatever members are left
FillDone_any_member ==
    /\ pc = "fill" /\ stack = <<>>
    /\ midx > 1
    /\ pc' = "drain"
    /\ UNCHANGED <<exc, serviceVars, threadVars, memberVars, walkVars, queueVars, saveVars,
                   filterVars>>

\* the loop over the members is done: the drain loop starts
FillDone ==
    /\ pc = "fill" /\ stack = <<>>
    /\ midx > Len(members)
    /\ pc' = "drain"
    /\ UNCHANGED <<exc, serviceVars, threadVars, memberVars, walkVars, queueVars, saveVars,
                   filterVars>>

Walk == FillNextMember \/ WalkSkip \/ WalkYield \/ WalkYieldBreak
        \/ WalkFolderEntry \/ WalkNextPage \/ WalkReturn \/ FillDone

----------------------------------------------------------------------------
(* list_files for one member over a family of folder trees *)

DirRoot == <<>>
DirS    == <<"/", "S">>
DirT    == <<"/", "S", "/", "T">>

\* the k-th file of a folder; with q = "large" (q = "old") the files at odd k
\* are one byte over the size threshold (older than since)
TreeFile(dir, id, k, q) ==
    FileMetadata(id, dir \o <<"/">> \o Name(id),
                 IF q = "large" /\ k % 2 = 1 THEN MB + 1 ELSE MB,
                 IF q = "old" /\ k % 2 = 1 THEN 0 ELSE 1)

\* n files of dir with the identifiers first+1 .. first+n
TreeFiles(dir, first, n, q) == [k \in 1..n |-> TreeFile(dir, first + k, k, q)]

\* the root holds a files, the folder S and d more files; S holds b files and
\* the folder T; T holds c files; listings come in pages of ps entries
Tree(a, b, c, d, ps, q) ==
    [dir \in {DirRoot, DirS, DirT} |->
        Paginate(
            IF dir = DirRoot
            THEN TreeFiles(dir, 0, a, q) \o <<FolderMetadata(DirS)>>
                 \o TreeFiles(dir, a + b + c, d, q)
            ELSE IF dir = DirS
            THEN TreeFiles(dir, a, b, q) \o <<FolderMetadata(DirT)>>
            ELSE TreeFiles(dir, a + b, c, q),
            ps)]

TreeArgs(q) == [maxsize |-> 1, since |-> IF q = "old" THEN 1 ELSE None, out |-> <<"o">>]

InitWalk ==
    /\ pc = "fill" /\ exc = NoExc
    /\ \E a \in 0..MaxRoot, b \in 0..MaxFiles, c \in 0..MaxFiles, d \in 0..MaxRoot,
          ps \in {2, 2 * MaxFiles}, q \in {"all", "large", "old"} :
          /\ team = [member_pages |-> <<<<TeamMemberInfo(1)>>>>,
                     folders |-> [m \in {1} |-> Tree(a, b, c, d, ps, q)]]
          /\ args = TreeArgs(q)
    /\ members_list = team_members_list(team)
    /\ members = <<TeamMemberInfo(1)>>
    /\ member_requests = <<[op |-> "team_members_list", cursor |-> 0, failed |-> FALSE]>>
    /\ midx = 1 /\ stack = <<>> /\ requests = <<>> /\ discovered = <<>> /\ looked = <<>>
    /\ IdleQueue /\ IdleSave /\ IdleFilter /\ IdleThreads

NextWalk == Walk

SpecWalk == InitWalk /\ [][NextWalk]_vars

\* every entry of a folder, page after page
AllEntries(folders, dir) == Concat(folders[dir])

\* the walk without the limit decorator: files that pass the filter, in
\* depth-first pre-order of the listing
RECURSIVE Preorder(_, _, _, _)
Preorder(folders, member, a, dir) ==
    LET es == AllEntries(folders, dir)
    IN Concat([k \in 1..Len(es) |->
                 IF RaisesAttributeError(es[k], a)
                 THEN Preorder(folders, member, a, es[k].path_display)
                 ELSE IF should_download(es[k], a) THEN <<File(es[k], member)>>
                 ELSE <<>>])

\* every file anywhere beneath dir, in pre-order
RECURSIVE LeafFiles(_, _)
LeafFiles(folders, dir) ==
    LET es == AllEntries(folders, dir)
    IN Concat([k \in 1..Len(es) |->
                 IF HasAttr(es[k], "size") THEN <<es[k]>>
                 ELSE LeafFiles(folders, es[k].path_display)])

\* the top-level list_files call of the first member has ended
WalkEnded == pc = "drain"
MemberFolders == team.folders[1]
MemberLeaves == LeafFiles(MemberFolders, DirRoot)
MemberPreorder == Preorder(MemberFolders, members[1], args, DirRoot)

\* C5: for a tree of nested folders whose N leaf files all pass the filter,
\* list_files from the root yields exactly those N files, each once, and no
\* folder entry, for every N.
C5_DiscoveryComplete ==
    (WalkEnded /\ \A k \in 1..Len(MemberLeaves) : should_download(MemberLeaves[k], args))
    => /\ Len(discovered) = Len(MemberLeaves)
       /\ \A k \in 1..Len(MemberLeaves) : Count(discovered, MemberLeaves[k].id) = 1
       /\ \A k \in 1..Len(discovered) : HasAttr(discovered[k].file, "size")

\* C6: with more than LIMIT qualifying files the top-level list_files call
\* yields exactly LIMIT entries, the first LIMIT of the walk without the
\* decorator in that order, and raises nothing, whatever the tree is.
C6_DiscoveryCap ==
    (WalkEnded /\ Len(MemberPreorder) > LIMIT)
    => /\ discovered = SubSeq(MemberPreorder, 1, LIMIT)
       /\ exc = NoExc

\* the walk of a tree whose sub-folders both hold more than LIMIT qualifying
\* files has ended
C6_Witness ==
    /\ WalkEnded
    /\ Len(Preorder(MemberFolders, members[1], args, DirT)) > LIMIT
    /\ Len(Preorder(MemberFolders, members[1], args, DirS)) > 2 * LIMIT
    /\ Len(discovered) = LIMIT

----------------------------------------------------------------------------
(* Paths and the file system as save_file uses them *)

\* the characters of the model that are in string.printable; "DEL" stands
\* for U+007F, which is not
string_printable == { Digit[k] : k \in 1..10 } \cup {"/", "S", "T", "o"}

\* remove_unprintable
remove_unprintable(text) == SelectSeq(text, LAMBDA c : c \in string_printable)

\* os.path.join(a, b): a second part that starts with the separator is
\* absolute and replaces the first part
os_path_join(a, b) ==
    IF b # <<>> /\ b[1] = "/" THEN b
    ELSE IF a = <<>> \/ a[Len(a)] = "/" THEN a \o b
    ELSE a \o <<"/">> \o b

\* os.path.dirname(p): p up to its last separator, without trailing
\* separators unless it is all separators
os_path_dirname(p) ==
    LET slashes == { k \in 1..Len(p) : p[k] = "/" }
        last == IF slashes = {} THEN 0 ELSE CHOOSE k \in slashes : \A l \in slashes : l <= k
        head == SubSeq(p, 1, last)
        keep == { k \in 1..Len(head) : head[k] # "/" }
    IN IF keep = {} THEN head
       ELSE SubSeq(head, 1, CHOOSE k \in keep : \A l \in keep : l <= k)

\* the classes an exception is an instance of
Mro(x) ==
    CASE x = "FileNotFoundError" -> {"FileNotFoundError", "OSError", "Exception"}
      [] x = "PermissionError"   -> {"PermissionError", "OSError", "Exception"}
      [] x = "OSError"           -> {"OSError", "Exception"}
      [] x = "AttributeError"    -> {"AttributeError", "Exception"}
      [] x = "ApiError"          -> {"ApiError", "Exception"}
      [] x = "Empty"             -> {"Empty", "Exception"}
IsInstance(x, cls) == cls \in Mro(x)

\* what os.makedirs(dir, exist_ok=True) can do: succeed; fail on a path over
\* the length limit, with FileNotFoundError on Windows and with
\* OSError(ENAMETOOLONG) on POSIX; fail for lack of permission
MakedirsOutcomes ==
    { [cause |-> "ok", raises |-> "none"],
      [cause |-> "path_too_long", raises |-> "FileNotFoundError"],
      [cause |-> "path_too_long", raises |-> "OSError"],
      [cause |-> "permission_denied", raises |-> "PermissionError"] }

\* what files_download_to_file can do
DownloadOutcomes == {"ok", "ApiError"}

----------------------------------------------------------------------------
(* save_file and the drain loop of list_and_save *)

\* file_queue.get() at line 315: block and timeout keep their defaults
get_block   == TRUE
get_timeout == None

\* save_file: printable_path and local_path
printable_path(f) == remove_unprintable(f.file.path_display)
local_path(f, root) == os_path_join(root, printable_path(f))

\* the exception class the first handler of save_file catches
MakedirsHandler == "FileNotFoundError"

Draining == pc = "drain" /\ file_queue.queue # <<>>
Next_file == Head(file_queue.queue)

\* file_queue.get() returns the oldest entry
Got ==
    /\ file_queue' = [file_queue EXCEPT !.queue = Tail(@)]
    /\ delivered' = Append(delivered, Next_file)
    /\ last_op' = [op |-> "get", item |-> Next_file, accepted |-> FALSE]
    /\ UNCHANGED ever_put

\* the record of one save_file call: the paths it computed, what os.makedirs
\* did, the exception raised inside it and whether that exception left it
SaveCall(f, mk, error, escaped) ==
    [file |-> f, local_path |-> local_path(f, args.out),
     makedirs |-> os_path_dirname(local_path(f, args.out)),
     outcome |-> mk, error |-> error, escaped |-> escaped]

\* save_file: os.makedirs raises what the first handler catches; the error
\* is logged and save_file returns
DrainSaveMakedirsCaught ==
    /\ Draining
    /\ \E mk \in MakedirsOutcomes :
          /\ mk.raises # "none"
          /\ IsInstance(mk.raises, MakedirsHandler)
          /\ save_calls' = Append(save_calls, SaveCall(Next_file, mk, mk.raises, FALSE))
          /\ log' = Append(log, [logger |-> "backup.save_file", level |-> "ERROR",
                                 exc |-> mk.raises, file |-> Next_file.file.id])
    /\ Got
    /\ UNCHANGED <<pc, exc, downloads, disk, serviceVars, threadVars, memberVars, walkVars, filterVars>>

\* save_file: os.makedirs raises what the first handler does not catch; the
\* exception leaves save_file, is not queue.Empty, and leaves list_and_save
DrainSaveMakedirsRaises ==
    /\ Draining
    /\ \E mk \in MakedirsOutcomes :
          /\ mk.raises # "none"
          /\ ~IsInstance(mk.raises, MakedirsHandler)
          /\ ~IsInstance(mk.raises, "Empty")
          /\ save_calls' = Append(save_calls, SaveCall(Next_file, mk, mk.raises, TRUE))
          /\ exc' = [type |-> mk.raises, at |-> "save_file"]
    /\ pc' = "raised"
    /\ Got
    /\ UNCHANGED <<downloads, disk, log, serviceVars, threadVars, memberVars, walkVars, filterVars>>

\* save_file: the directory exists; team.as_user(file.member.member_id) and
\* the download run under "except Exception", which logs and returns
DrainSaveDownload ==
    /\ Draining
    /\ LET f == Next_file
           mk == [cause |-> "ok", raises |-> "none"]
       IN IF ~HasAttr(f.member, "member_id")
          THEN /\ save_calls' = Append(save_calls, SaveCall(f, mk, "AttributeError", FALSE))
               /\ log' = Append(log, [logger |-> "backup.save_file", level |-> "ERROR",
                                      exc |-> "AttributeError", file |-> f.file.id])
               /\ UNCHANGED <<downloads, disk>>
          ELSE \E dl \in DownloadOutcomes :
               /\ save_calls' = Append(save_calls,
                      SaveCall(f, mk, IF dl = "ok" THEN "none" ELSE dl, FALSE))
               /\ downloads' = Append(downloads,
                      [user |-> f.member.member_id, remote |-> f.file.path_display,
                       local |-> local_path(f, args.out)])
               /\ IF dl = "ok"
                  THEN disk' = disk \cup {local_path(f, args.out)} /\ UNCHANGED log
                  ELSE /\ log' = Append(log, [logger |-> "backup.save_file",
                                              level |-> "ERROR", exc |-> dl,
                                              file |-> f.file.id])
                       /\ UNCHANGED disk
    /\ Got
    /\ UNCHANGED <<pc, exc, serviceVars, threadVars, memberVars, walkVars, filterVars>>

\* file_queue.get() on the empty queue: with block true and no timeout the
\* call waits for a put that no thread will make; otherwise it raises
\* queue.Empty, which the loop catches to log and break
DrainGetEmpty ==
    /\ pc = "drain" /\ file_queue.queue = <<>>
    /\ pc' = IF get_block /\ get_timeout = None THEN "get_wait" ELSE "returned"
    /\ UNCHANGED <<exc, serviceVars, threadVars, memberVars, walkVars, queueVars, saveVars, filterVars>>

Drain == DrainSaveMakedirsCaught \/ DrainSaveMakedirsRaises \/ DrainSaveDownload
         \/ DrainGetEmpty

----------------------------------------------------------------------------
(* The whole run of list_and_save *)

\* the folder the shared files are mounted at in the view of member m
SharedDir(m) == IF m = 1 THEN DirS ELSE <<"/", "T">>

\* a file name; with weird it starts with an unprintable character
RunName(id, weird) == IF weird THEN <<"DEL">> \o Name(id) ELSE Name(id)

\* the view of member m: member 1 has own files in the root, of which those
\* at even positions are over the size threshold; every member has the shared
\* folder, whose sh files carry the same identifiers in every view
RunTree(m, own, sh, weird) ==
    [dir \in {DirRoot, SharedDir(m)} |->
        Paginate(
            IF dir = DirRoot
            THEN [k \in 1..(IF m = 1 THEN own ELSE 0) |->
                     FileMetadata(20 + k, <<"/">> \o RunName(20 + k, weird),
                                  IF k % 2 = 0 THEN MB + 1 ELSE MB, 1)]
                 \o <<FolderMetadata(SharedDir(m))>>
            ELSE [k \in 1..sh |->
                     FileMetadata(k, dir \o <<"/">> \o RunName(k, weird), MB, 1)],
            2)]

\* the members arr on one page, or the first alone on a page before the rest
RunChains ==
    UNION { { Paged(arr, 1, <<>>), Paged(arr, 2, <<IF arr = <<>> THEN 0 ELSE 1>>) } :
            arr \in UNION { Arrangements(n) : n \in 0..MaxMember } }

RunTeams ==
    { [member_pages |-> ch,
       folders |-> [m \in 1..MaxMember |-> RunTree(m, own, sh, weird)]] :
        ch \in RunChains, own \in 0..MaxOwn, sh \in 0..MaxShared, weird \in BOOLEAN }
    \cup
    { [member_pages |-> <<<<TeamMemberInfo(1)>>>>,
       folders |-> [m \in 1..MaxMember |-> RunTree(m, 0, LIMIT + 1, FALSE)]] }

Init ==
    /\ pc = "list_members" /\ exc = NoExc
    /\ team \in RunTeams
    /\ args = [maxsize |-> 1, since |-> None, out |-> <<"o">>]
    /\ IdleMembers /\ IdleWalk /\ IdleQueue /\ IdleSave /\ IdleFilter /\ IdleThreads

\* team_members_list or team_members_list_continue raises: nothing in
\* list_members or list_and_save catches it
ListMembersFails ==
    /\ \/ pc = "list_members"
       \/ pc = "list_members_loop" /\ members_list.has_more
    /\ member_requests' = Append(member_requests,
           IF pc = "list_members"
           THEN [op |-> "team_members_list", cursor |-> 0, failed |-> TRUE]
           ELSE [op |-> "team_members_list_continue", cursor |-> members_list.cursor,
                 failed |-> TRUE])
    /\ pc' = "raised"
    /\ exc' = [type |-> "ApiError", at |-> "list_members"]
    /\ UNCHANGED <<members_list, members, serviceVars, threadVars, walkVars, queueVars, saveVars,
                   filterVars>>

\* the listing request the walk is about to make
NextListing ==
    IF stack = <<>>
    THEN [user |-> User, op |-> "files_list_folder", arg |-> <<>>, failed |-> TRUE]
    ELSE IF AtEntry
    THEN [user |-> User, op |-> "files_list_folder", arg |-> Entry.path_display,
          failed |-> TRUE]
    ELSE [user |-> User, op |-> "files_list_folder_continue",
          arg |-> Top.folder_list.cursor, failed |-> TRUE]

\* the walk is about to list the root folder of the next member, the folder
\* of a folder entry, or the next page
AboutToList ==
    /\ pc = "fill"
    /\ IF stack = <<>> THEN midx <= Len(members)
       ELSE IF AtEntry THEN RaisesAttributeError(Entry, args)
       ELSE Top.folder_list.has_more

\* plausible slip: a listing failure is swallowed and the walk of the member
\* is given up, the run going on with the next member
WalkListFails_swallowed ==
    /\ AboutToList
    /\ requests' = Append(requests, NextListing)
    /\ stack' = <<>>
    /\ midx' = midx + 1
    /\ UNCHANGED <<pc, exc, discovered, looked, serviceVars, threadVars, memberVars, queueVars, saveVars,
                   filterVars>>

\* files_list_folder or files_list_folder_continue raises, in the top-level
\* call or in a recursive one: the handlers of list_files catch
\* AttributeError of should_download only, the limit wrappers and
\* list_and_save catch nothing, so the exception leaves list_and_save
WalkListFails ==
    /\ AboutToList
    /\ requests' = Append(requests, NextListing)
    /\ stack' = <<>>
    /\ pc' = "raised"
    /\ exc' = [type |-> "ApiError", at |-> "list_files"]
    /\ UNCHANGED <<midx, discovered, looked, serviceVars, threadVars, memberVars, queueVars, saveVars,
                   filterVars>>

Next == NextMembers \/ ListMembersFails \/ Walk \/ WalkListFails \/ Drain

Spec == Init /\ [][Next]_vars

\* list_and_save runs in one thread, which is never starved
FairSpec == Spec /\ WF_vars(Next)

----------------------------------------------------------------------------
(* Properties of the whole run *)

\* the fill phase completed and the drain loop is over: list_and_save has
\* returned, waits in get() on a queue no one will fill, or was left by an
\* exception of save_file
RunOver ==
    \/ pc \in {"returned", "get_wait"}
    \/ pc = "raised" /\ exc.at = "save_file"

\* number of save_file calls for the identifier id
CallsFor(id) ==
    Cardinality({ k \in 1..Len(save_calls) : save_calls[k].file.file.id = id })

\* C2: once the fill phase has completed, the drain loop pops and saves every
\* queued entry, then sees the queue empty, leaves the loop and list_and_save
\* returns (unless an exception has left list_and_save before).
C2_DrainTerminates ==
    (pc = "drain") ~> (pc = "returned" \/ exc # NoExc)

\* C3: when the run is over, save_file has been invoked exactly once for every
\* identifier that discovery yielded, and never more than once before.
C3_SingleDownload ==
    /\ \A k \in 1..Len(discovered) : CallsFor(discovered[k].file.id) <= 1
    /\ RunOver => \A k \in 1..Len(discovered) : CallsFor(discovered[k].file.id) = 1

\* the output root, a separator, and the sanitized display path without its
\* leading separator
ExpectedLocalPath(root, path_display) ==
    LET p == remove_unprintable(path_display)
    IN root \o <<"/">> \o (IF p # <<>> /\ p[1] = "/" THEN Tail(p) ELSE p)

IsPrefix(a, b) == Len(a) <= Len(b) /\ SubSeq(b, 1, Len(a)) = a

\* C7: every save_file call creates the directories of, and downloads to, the
\* output root followed by the sanitized display path without its leading
\* separator, a path beneath the output root.
C7_LocalTargetPath ==
    /\ \A k \in 1..Len(save_calls) :
          LET c == save_calls[k]
              expected == ExpectedLocalPath(args.out, c.file.file.path_display)
          IN /\ c.local_path = expected
             /\ c.makedirs = os_path_dirname(expected)
             /\ IsPrefix(args.out \o <<"/">>, c.local_path)
    /\ \A k \in 1..Len(downloads) : IsPrefix(args.out \o <<"/">>, downloads[k].local)
    /\ \A f \in disk : IsPrefix(args.out \o <<"/">>, f)

\* the failure of the k-th save_file call is in the log
Logged(k) ==
    \E l \in 1..Len(log) :
        /\ log[l].file = save_calls[k].file.file.id
        /\ log[l].exc = save_calls[k].error
        /\ log[l].level = "ERROR"

C9_PathTooLong ==
    \A k \in 1..Len(save_calls) :
        save_calls[k].outcome.cause = "path_too_long"
        => /\ ~save_calls[k].escaped
           /\ exc = NoExc
           /\ Logged(k)
           /\ \A d \in 1..Len(downloads) :
                 downloads[d].remote # save_calls[k].file.file.path_display
           /\ save_calls[k].local_path \notin disk
           /\ CallsFor(save_calls[k].file.file.id) = 1

----------------------------------------------------------------------------
(* Order of the phases of list_and_save *)

\* position in members of the member with identifier id (0 if absent)
MemberIndex(id) ==
    LET at == { k \in 1..Len(members) : members[k].profile.team_member_id = id }
    IN IF at = {} THEN 0 ELSE CHOOSE k \in at : TRUE

\* member enumeration has finished and the top-level list_files call of
\* every member has ended
FillOver ==
    /\ pc \notin {"list_members", "list_members_loop", "fill"}
    /\ ~members_list.has_more
    /\ Len(member_requests) = Len(team.member_pages)
    /\ stack = <<>>
    /\ midx > Len(members)

\* C11: no save_file call (and no get) happens before member enumeration has
\* finished and discovery has ended for every member; the listing requests
\* and the yields of one member all come before those of the next member.
C11_TwoPhaseOrdering ==
    /\ (save_calls # <<>> \/ delivered # <<>> \/ downloads # <<>>) => FillOver
    /\ \A i, j \in 1..Len(requests) :
          i < j => /\ MemberIndex(requests[i].user) <= MemberIndex(requests[j].user)
                   /\ MemberIndex(requests[j].user) <= midx
    /\ \A i, j \in 1..Len(discovered) :
          i < j => MemberIndex(discovered[i].member.profile.team_member_id)
                     <= MemberIndex(discovered[j].member.profile.team_member_id)
    /\ \A k \in 1..Len(requests) : MemberIndex(requests[k].user) >= 1

\* save_file has been called in a run in which files were discovered for two
\* members
C11_Witness ==
    /\ save_calls # <<>>
    /\ \E i, j \in 1..Len(discovered) : discovered[i].member # discovered[j].member
    /\ \E i, j \in 1..Len(requests) : requests[i].user # requests[j].user

----------------------------------------------------------------------------
(* Order of the downloads *)

\* s without the elements that occurred before
RECURSIVE Dedup(_)
Dedup(s) ==
    IF s = <<>> THEN <<>>
    ELSE LET r == Dedup(SubSeq(s, 1, Len(s) - 1))
             x == s[Len(s)]
         IN IF \E k \in 1..Len(r) : r[k] = x THEN r ELSE Append(r, x)

DiscoveredIds == [k \in 1..Len(discovered) |-> discovered[k].file.id]
SavedIds == [k \in 1..Len(save_calls) |-> save_calls[k].file.file.id]

\* C12: the identifiers passed to save_file, in order, are the identifiers
\* yielded by discovery, in order, without the repeated occurrences: a prefix
\* of them while the drain runs and all of them when the run is over.
C12_DownloadOrder ==
    /\ IsPrefix(SavedIds, Dedup(DiscoveredIds))
    /\ RunOver => SavedIds = Dedup(DiscoveredIds)

----------------------------------------------------------------------------
(* Listing failures *)

\* a member page request or a folder listing request has failed
ListingFailed ==
    \/ \E k \in 1..Len(member_requests) : member_requests[k].failed
    \/ \E k \in 1..Len(requests) : requests[k].failed

\* C13: when a member page request or a folder listing request fails (first
\* page or continuation, at any depth), the failure is caught nowhere: it
\* leaves list_and_save, no request follows it, and no save_file call is made
\* in that run.
C13_ListingFailureAborts ==
    ListingFailed
    => /\ pc = "raised"
       /\ exc.type = "ApiError"
       /\ exc.at \in {"list_members", "list_files"}
       /\ \A k \in 1..Len(member_requests) :
             member_requests[k].failed => k = Len(member_requests) /\ requests = <<>>
       /\ \A k \in 1..Len(requests) : requests[k].failed => k = Len(requests)
       /\ save_calls = <<>> /\ delivered = <<>> /\ downloads = <<>> /\ disk = {}

\* the continuation request of a sub-folder listing has failed after files
\* had been queued
C13_Witness ==
    /\ pc = "raised"
    /\ requests # <<>>
    /\ requests[Len(requests)].failed
    /\ requests[Len(requests)].op = "files_list_folder_continue"
    /\ requests[Len(requests)].arg.dir # DirRoot
    /\ file_queue.queue # <<>>

----------------------------------------------------------------------------
(* SetQueue under concurrent producers *)

\* the File objects producer p may put: any identifier, under the member of p
ProducerItems(p) ==
    { File(FileMetadata(id, <<"/", D(p), "/", D(id)>>, 0, 0),
           TeamMemberInfo(((p - 1) % MaxMember) + 1)) : id \in 1..MaxId }

Producers == 1..MaxProducers

InitThreads ==
    /\ pc = "idle" /\ exc = NoExc
    /\ IdleService /\ IdleMembers /\ IdleWalk /\ IdleQueue /\ IdleSave /\ IdleFilter
    /\ mutex = 0
    /\ producers \in
         { f \in [Producers -> { [pc |-> "put", item |-> x, absent |-> FALSE] :
                                   x \in UNION { ProducerItems(p) : p \in Producers } }] :
             \A p \in Producers : f[p].item \in ProducerItems(p) }

threadFrame == <<pc, exc, last_op, delivered, serviceVars, memberVars, walkVars,
                 saveVars, filterVars>>

\* plausible slip: _put runs without the mutex of the queue
PutAcquire_no_mutex(p) ==
    /\ producers[p].pc = "put"
    /\ producers' = [producers EXCEPT ![p].pc = "check"]
    /\ ever_put' = ever_put \cup {producers[p].item.file.id}
    /\ UNCHANGED <<mutex, file_queue, threadFrame>>

\* Queue.put: "with self.not_full" takes the mutex of the queue
PutAcquire(p) ==
    /\ producers[p].pc = "put"
    /\ mutex = 0
    /\ mutex' = p
    /\ producers' = [producers EXCEPT ![p].pc = "check"]
    /\ ever_put' = ever_put \cup {producers[p].item.file.id}
    /\ UNCHANGED <<file_queue, threadFrame>>

\* SetQueue._put: if item not in self.all_items
PutCheck(p) ==
    /\ producers[p].pc = "check"
    /\ LET absent == ~InAllItems(producers[p].item, file_queue.all_items)
       IN producers' = [producers EXCEPT ![p].absent = absent,
                                         ![p].pc = IF absent THEN "append" ELSE "release"]
    /\ UNCHANGED <<mutex, file_queue, ever_put, threadFrame>>

\* SetQueue._put: super()._put(item)
PutAppend(p) ==
    /\ producers[p].pc = "append"
    /\ file_queue' = [file_queue EXCEPT !.queue = Append(@, producers[p].item)]
    /\ producers' = [producers EXCEPT ![p].pc = "add"]
    /\ UNCHANGED <<mutex, ever_put, threadFrame>>

\* SetQueue._put: self.all_items.add(item)
PutAdd(p) ==
    /\ producers[p].pc = "add"
    /\ file_queue' = [file_queue EXCEPT !.all_items = @ \cup {producers[p].item}]
    /\ producers' = [producers EXCEPT ![p].pc = "release"]
    /\ UNCHANGED <<mutex, ever_put, threadFrame>>

\* Queue.put: leaving the with block releases the mutex
PutRelease(p) ==
    /\ producers[p].pc = "release"
    /\ mutex' = IF mutex = p THEN 0 ELSE mutex
    /\ producers' = [producers EXCEPT ![p].pc = "done"]
    /\ UNCHANGED <<file_queue, ever_put, threadFrame>>

\* Queue.get by a consumer thread: takes the mutex, removes the oldest entry
ThreadGet ==
    /\ mutex = 0
    /\ file_queue.queue # <<>>
    /\ delivered' = Append(delivered, Head(file_queue.queue))
    /\ file_queue' = [file_queue EXCEPT !.queue = Tail(@)]
    /\ UNCHANGED <<pc, exc, last_op, ever_put, mutex, producers, serviceVars,
                   memberVars, walkVars, saveVars, filterVars>>

NextThreads ==
    \/ \E p \in Producers :
          PutAcquire(p) \/ PutCheck(p) \/ PutAppend(p) \/ PutAdd(p) \/ PutRelease(p)
    \/ ThreadGet

SpecThreads == InitThreads /\ [][NextThreads]_vars

\* producers inside _put
InPut == { p \in Producers : producers[p].pc \in {"check", "append", "add", "release"} }

\* C14: with producers putting concurrently, the membership check, the FIFO
\* append and the recording of the identifier of one put are not interleaved
\* with those of another, so of the entries put with one identifier exactly
\* one is appended and the others are dropped.
C14_AtomicPush ==
    /\ Cardinality(InPut) <= 1
    /\ \A id \in 1..MaxId : Count(file_queue.queue, id) + Count(delivered, id) <= 1
    /\ \A p \in Producers :
          producers[p].pc = "done"
          => Count(file_queue.queue, producers[p].item.file.id)
               + Count(delivered, producers[p].item.file.id) = 1

\* all producers have put the same identifier and are done
C14_Witness ==
    /\ \A p \in Producers : producers[p].pc = "done"
    /\ \A p, q \in Producers : producers[p].item.file.id = producers[q].item.file.id
    /\ \E p \in Producers : ~producers[p].absent
    /\ \E p \in Producers : producers[p].absent

\* download requests issued for the k-th save_file call under the identity
\* that list_files used for the member of its entry
DownloadsFor(k) ==
    { d \in 1..Len(downloads) :
        /\ downloads[d].user = save_calls[k].file.member.profile.team_member_id
        /\ downloads[d].remote = save_calls[k].file.file.path_display
        /\ downloads[d].local = save_calls[k].local_path }

\* C15: for every save_file call whose parent directory was created, one
\* download of the entry's remote path to the local target path has been
\* requested under the member identifier that list_files listed with.
C15_DownloadIdentity ==
    \A k \in 1..Len(save_calls) :
        save_calls[k].outcome.cause = "ok" => Cardinality(DownloadsFor(k)) = 1

\* every entry beneath dir in depth-first pre-order of the listing: an entry,
\* then, when it is taken as a folder, everything beneath it
RECURSIVE EntriesPreorder(_, _, _)
EntriesPreorder(folders, a, dir) ==
    LET es == AllEntries(folders, dir)
    IN Concat([k \in 1..Len(es) |->
                 <<es[k].path_display>>
                 \o (IF RaisesAttributeError(es[k], a)
                     THEN EntriesPreorder(folders, a, es[k].path_display)
                     ELSE <<>>)])

MemberEntriesPreorder == EntriesPreorder(MemberFolders, args, DirRoot)

\* C16: within one member's discovery the entries are looked at in the
\* depth-first pre-order of the listing (everything beneath a folder entry
\* before the next entry of the page it is on), and the files are yielded in
\* that order.
C16_DiscoveryOrder ==
    /\ IsPrefix(looked, MemberEntriesPreorder)
    /\ IsPrefix(discovered, MemberPreorder)

\* C17: once the list_files sequence of the member has yielded its LIMIT-th
\* item, no further folder listing request, first page or continuation, is
\* issued for the member and no exception is raised.
C17_CapAbandons ==
    [][Len(discovered) = LIMIT => (requests' = requests /\ exc' = NoExc)]_vars

\* identifiers of the File objects in all_items
SeenIds(q) == { x.file.id : x \in q.all_items }

\* the FIFO holds no identifier twice and only identifiers of all_items
QueueStateOk ==
    /\ \A id \in 1..MaxId : Count(file_queue.queue, id) <= 1
    /\ Ids(file_queue.queue) \subseteq SeenIds(file_queue)

\* all_items never shrinks, get leaves it alone, and a put of an identifier
\* of all_items changes neither the FIFO nor all_items and raises nothing
QueueStepOk ==
    /\ file_queue.all_items \subseteq file_queue'.all_items
    /\ last_op'.op = "get" => file_queue'.all_items = file_queue.all_items
    /\ (last_op'.op = "put" /\ last_op'.item.file.id \in SeenIds(file_queue))
       => (file_queue' = file_queue /\ exc' = NoExc)

\* C18: in every reachable state of a SetQueue the FIFO holds no two entries
\* with the same identifier and only identifiers of all_items; all_items
\* never shrinks (get removes from the FIFO only); a put of an identifier
\* already in all_items leaves the FIFO and all_items unchanged and raises
\* no error.
C18_QueueStateInvariant == []QueueStateOk /\ [][QueueStepOk]_vars

\* a put of an identifier that was delivered before has just been dropped
\* while other entries are queued
C18_Witness ==
    /\ last_op.op = "put" /\ ~last_op.accepted
    /\ file_queue.queue # <<>>
    /\ last_op.item.file.id \notin Ids(file_queue.queue)
    /\ last_op.item.file.id \in Ids(delivered)
    /\ exc = NoExc

\* the first File object that discovery yielded with the identifier id
FirstDiscovered(id) ==
    discovered[CHOOSE i \in 1..Len(discovered) :
                  /\ discovered[i].file.id = id
                  /\ \A j \in 1..(i - 1) : discovered[j].file.id # id]

\* C19: the entry queued for, and passed to save_file with, an identifier is
\* the first File object discovery yielded with it, with the member and the
\* display path of that first yield, whatever was yielded with the same
\* identifier later.
C19_FirstDiscovererWins ==
    /\ \A k \in 1..Len(file_queue.queue) :
          file_queue.queue[k] = FirstDiscovered(file_queue.queue[k].file.id)
    /\ \A k \in 1..Len(save_calls) :
          save_calls[k].file = FirstDiscovered(save_calls[k].file.file.id)

\* save_file has been called for an identifier that discovery yielded for two
\* members under different display paths
C19_Witness ==
    \E k \in 1..Len(save_calls) : \E i, j \in 1..Len(discovered) :
        /\ i < j
        /\ discovered[i].file.id = save_calls[k].file.file.id
        /\ discovered[j].file.id = save_calls[k].file.file.id
        /\ discovered[i].member # discovered[j].member
        /\ discovered[i].file.path_display # discovered[j].file.path_display
        /\ save_calls[k].file.member = discovered[i].member
        /\ save_calls[k].file.file.path_display = discovered[i].file.path_display

====
